---- MODULE Spec2Model ----
(***************************************************************************)
(* Model of core/equations/recursive_trace_analyzer.py:                    *)
(* RecursiveTraceAnalyzer (trace history, synthetic trace builder,         *)
(* structural metrics) as a state machine, and of the scalar calculators   *)
(* of bridge_equation.py, constraint_equations.py and                      *)
(* recursive_coherence.py with their histories.                            *)
(*                                                                         *)
(* A TraceNode is a record [id, type, content, metadata, children] whose   *)
(* children field is a sequence of TraceNode records; a RecursiveTrace is  *)
(* a record [root, depth, metadata].  Python dicts are functions from      *)
(* string keys to values.  A float quotient a / b is kept as the exact     *)
(* fraction [num |-> a, den |-> b].                                        *)
(***************************************************************************)
EXTENDS Integers, Sequences, FiniteSets, TLC

VARIABLES
    traces,      \* self.traces: the analyzer's trace history
    returned,    \* <<>> or <<t>>: the value of the last extract_trace call
    analysed,    \* <<>> or <<t>>: the argument of the last analyze_trace call
    analysis,    \* <<>> or <<r>>: the value of the last analyze_trace call
    clock,       \* the reading pd.Timestamp.now() gives next
    pwt_calls,   \* number of system.process_with_trace invocations so far
    calls,       \* the arguments of the extract_trace calls so far, in order
    measured,    \* <<>> or <<d>>: the value of a direct _calculate_trace_depth call
    heap,        \* a node graph by reference: node -> its children list
    stack,       \* the active calls of a traversal of heap, innermost last
    walk_kind,   \* which traversal runs over heap
    walk_status, \* "idle", "running", "returned" or the exception raised
    walk_result, \* <<>> or <<v>>: the value the traversal returned
    nodes,       \* the TraceNode objects the builder has constructed, by reference
    lists,       \* the list objects the builder has constructed, by reference
    frames,      \* the active _trace_recursive_processing calls, innermost last
    building,    \* <<>> or <<b>>: the _generic_trace_extraction call in progress
    resolving,   \* <<>> or <<c>>: an extract_trace call that has passed line 87
    bridge_history,     \* BridgeEquation.history
    constraint_history, \* ConstraintEquation.history
    coherence_history,  \* RecursiveCoherence.history
    calc_log     \* the calculator calls so far: arguments and how each ended

analyzer_vars ==
    <<traces, returned, analysed, analysis, clock, pwt_calls, calls, measured>>
walk_vars == <<heap, stack, walk_kind, walk_status, walk_result>>
build_vars == <<nodes, lists, frames, building>>
config_vars == <<resolving>>
calc_vars == <<bridge_history, constraint_history, coherence_history, calc_log>>
vars == <<analyzer_vars, walk_vars, build_vars, config_vars, calc_vars>>

----------------------------------------------------------------------------
(* Bounds of the model *)

\* largest max_depth a caller passes explicitly
MaxDepth == 3
\* extract_trace is called at most this many times
MaxTraces == 2
\* caller-built traces have at most this many nodes
MaxNodes == 5
\* node graphs by reference have this many nodes
HeapNodes == 2
\* the interpreter's limit on nested calls (1000 by default in CPython); above
\* HeapNodes, so that no traversal of an acyclic graph reaches it
RecursionLimit == 4
\* largest max_depth of a build followed statement by statement
MaxBuildDepth == 2
\* number of builds followed statement by statement
MaxBuilds == 2
\* largest small recursive_depth a calculator is called with
MaxCalcDepth == 2
\* number of calculator calls
MaxCalcs == 1

----------------------------------------------------------------------------
(* Python values *)

EmptyDict == [k \in {} |-> 0]
Dict1(key, value) == [k \in {key} |-> value]
\* {**a, **b}
DictMerge(a, b) ==
    [k \in (DOMAIN a) \cup (DOMAIN b) |-> IF k \in DOMAIN b THEN b[k] ELSE a[k]]

Max(a, b) == IF a >= b THEN a ELSE b

RECURSIVE SeqMax(_)
\* max(list) of a non-empty list of integers
SeqMax(s) == IF Len(s) = 1 THEN s[1] ELSE Max(s[1], SeqMax(Tail(s)))

RECURSIVE SeqSum(_)
\* sum(list)
SeqSum(s) == IF s = <<>> THEN 0 ELSE s[1] + SeqSum(Tail(s))

\* The list a comprehension builds: its elements are computed once, in order,
\* when the list is built.
List(f) == <<>> \o f

RECURSIVE Range(_)
\* range(n)
Range(n) == IF n <= 0 THEN <<>> ELSE Append(Range(n - 1), n - 1)

----------------------------------------------------------------------------
(* Data model *)

TraceNode(id, type, content, metadata, children) ==
    [id |-> id, type |-> type, content |-> content,
     metadata |-> metadata, children |-> children]

RecursiveTrace(root, depth, metadata) ==
    [root |-> root, depth |-> depth, metadata |-> metadata]

----------------------------------------------------------------------------
(* Synthetic trace builder *)

\* for i in range(3)
StepCount_two == 1 + 1
StepCount == 3

\* if current_depth >= max_depth: return
AtMaxDepth_strict(current_depth, max_depth) == current_depth > max_depth
AtMaxDepth(current_depth, max_depth) == current_depth >= max_depth

\* if current_depth < max_depth - 1: recurse into step_node
ShouldRecurse_early(current_depth, max_depth) == current_depth < max_depth - 2
ShouldRecurse_inclusive(current_depth, max_depth) == current_depth <= max_depth - 1
ShouldRecurse(current_depth, max_depth) == current_depth < max_depth - 1

StepNode_flat_id(parent_node, i, current_depth) ==
    TraceNode("step_" \o ToString(i),
              "transformation",
              "Processing step " \o ToString(i),
              Dict1("depth", current_depth + 1),
              <<>>)
StepNode_parent_depth(parent_node, i, current_depth) ==
    TraceNode(parent_node.id \o "_step_" \o ToString(i),
              "transformation",
              "Processing step " \o ToString(i),
              Dict1("depth", current_depth),
              <<>>)
StepNode(parent_node, i, current_depth) ==
    TraceNode(parent_node.id \o "_step_" \o ToString(i),
              "transformation",
              "Processing step " \o ToString(i),
              Dict1("depth", current_depth + 1),
              <<>>)

RECURSIVE _trace_recursive_processing(_, _, _)
\* The value of parent_node after the call: the call mutates parent_node in
\* place, appending the step nodes (each with its own finished subtree) to
\* parent_node.children in the order of the loop.
_trace_recursive_processing(parent_node, current_depth, max_depth) ==
    IF AtMaxDepth(current_depth, max_depth)
    THEN parent_node
    ELSE LET Step(i) ==
                 IF ShouldRecurse(current_depth, max_depth)
                 THEN _trace_recursive_processing(
                          StepNode(parent_node, i, current_depth),
                          current_depth + 1, max_depth)
                 ELSE StepNode(parent_node, i, current_depth)
             steps == List([k \in 1 .. StepCount |-> Step(Range(StepCount)[k])])
         IN  [parent_node EXCEPT !.children = @ \o steps]

RECURSIVE _calculate_trace_depth_leaf1(_)
_calculate_trace_depth_leaf1(node) ==
    IF node.children = <<>>
    THEN 1
    ELSE LET child_depths ==
                 List([k \in 1 .. Len(node.children) |->
                           _calculate_trace_depth_leaf1(node.children[k])])
         IN  1 + SeqMax(child_depths)

RECURSIVE _calculate_trace_depth(_)
_calculate_trace_depth(node) ==
    IF node.children = <<>>
    THEN 0
    ELSE LET child_depths ==
                 List([k \in 1 .. Len(node.children) |->
                           _calculate_trace_depth(node.children[k])])
         IN  1 + SeqMax(child_depths)

RECURSIVE _calculate_trace_breadth_leaf0(_)
_calculate_trace_breadth_leaf0(node) ==
    IF node.children = <<>>
    THEN 0
    ELSE LET this_level_breadth == Len(node.children)
             child_breadths ==
                 List([k \in 1 .. Len(node.children) |->
                           _calculate_trace_breadth_leaf0(node.children[k])])
             max_child_breadth ==
                 IF child_breadths # <<>> THEN SeqMax(child_breadths) ELSE 0
         IN  Max(this_level_breadth, max_child_breadth)

RECURSIVE _calculate_trace_breadth(_)
_calculate_trace_breadth(node) ==
    IF node.children = <<>>
    THEN 1
    ELSE LET this_level_breadth == Len(node.children)
             child_breadths ==
                 List([k \in 1 .. Len(node.children) |->
                           _calculate_trace_breadth(node.children[k])])
             max_child_breadth ==
                 IF child_breadths # <<>> THEN SeqMax(child_breadths) ELSE 0
         IN  Max(this_level_breadth, max_child_breadth)

RECURSIVE _count_nodes_leaves(_)
_count_nodes_leaves(node) ==
    IF node.children = <<>>
    THEN 1
    ELSE LET child_counts ==
                 List([k \in 1 .. Len(node.children) |->
                           _count_nodes_leaves(node.children[k])])
         IN  SeqSum(child_counts)

RECURSIVE _count_nodes(_)
_count_nodes(node) ==
    IF node.children = <<>>
    THEN 1
    ELSE LET child_counts ==
                 List([k \in 1 .. Len(node.children) |->
                           _count_nodes(node.children[k])])
         IN  1 + SeqSum(child_counts)

----------------------------------------------------------------------------
(* Branching factor.  The source file ends inside count_children_and_nodes,  *)
(* after the accumulating loop: the leaf pair and the accumulation are the   *)
(* source's; handing the pair back and the final quotient follow section 4.2 *)
(* of the specification.                                                     *)

\* if not node.children: return 0, 1
LeafPair_counted == <<1, 1>>
LeafPair == <<0, 1>>

\* total_children = len(node.children); total_nodes = 1;
\* for child in node.children: total_children += ..., total_nodes += ...
First(pair) == pair[1]
Second(pair) == pair[2]
AccumulatePair_internal(node, child_pairs) ==
    <<Len(node.children) + SeqSum(List([k \in 1 .. Len(child_pairs) |-> First(child_pairs[k])])),
      SeqSum(List([k \in 1 .. Len(child_pairs) |-> Second(child_pairs[k])]))>>
AccumulatePair_shallow(node, child_pairs) ==
    <<Len(node.children),
      1 + SeqSum(List([k \in 1 .. Len(child_pairs) |-> Second(child_pairs[k])]))>>
AccumulatePair_swapped(node, child_pairs) ==
    <<1 + SeqSum(List([k \in 1 .. Len(child_pairs) |-> Second(child_pairs[k])])),
      Len(node.children) + SeqSum(List([k \in 1 .. Len(child_pairs) |-> First(child_pairs[k])]))>>
AccumulatePair(node, child_pairs) ==
    <<Len(node.children) + SeqSum(List([k \in 1 .. Len(child_pairs) |-> First(child_pairs[k])])),
      1 + SeqSum(List([k \in 1 .. Len(child_pairs) |-> Second(child_pairs[k])]))>>

RECURSIVE count_children_and_nodes(_)
count_children_and_nodes(node) ==
    IF node.children = <<>>
    THEN LeafPair
    ELSE AccumulatePair(node,
             List([k \in 1 .. Len(node.children) |->
                       count_children_and_nodes(node.children[k])]))

\* the quotient a / b, kept exact
Frac(a, b) == [num |-> a, den |-> b]
FracEq(x, y) == x.num * y.den = y.num * x.den
\* x <= n for a fraction x with a positive denominator
FracLeInt(x, n) == x.num <= n * x.den
FracLtInt(x, n) == x.num < n * x.den

\* total_children / total_nodes over the whole tree, 0 when there is no node
_calculate_branching_factor(trace) ==
    LET pair == count_children_and_nodes(trace.root)
        total_children == pair[1]
        total_nodes == pair[2]
    IN  IF total_nodes = 0 THEN Frac(0, 1) ELSE Frac(total_children, total_nodes)

----------------------------------------------------------------------------
(* Recursion depth index.  The value factor * ln(log_of) is kept as the pair *)
(* of its operands; "return 0" is the value with factor 0.                   *)

RdiValue(branch, factor, log_of) ==
    [branch |-> branch, factor |-> factor, log_of |-> log_of]

\* ln(x) = 0 exactly when x = 1, so the product is 0 exactly in these cases
RdiIsZero(r) == r.factor.num = 0 \/ r.log_of.num = r.log_of.den

\* if node_count == 0 or branching_factor <= 1
RdiGuard_nonpositive(node_count, branching_factor) ==
    node_count = 0 \/ FracLeInt(branching_factor, 0)
RdiGuard(node_count, branching_factor) ==
    node_count = 0 \/ FracLeInt(branching_factor, 1)

_calculate_recursion_depth_index(trace) ==
    LET depth == trace.depth
        node_count == _count_nodes(trace.root)
        branching_factor == _calculate_branching_factor(trace)
    IN  IF RdiGuard(node_count, branching_factor)
        THEN RdiValue("guard", Frac(0, 1), Frac(1, 1))
        ELSE RdiValue("log", Frac(depth, node_count), branching_factor)

----------------------------------------------------------------------------
(* Pattern placeholders *)

_identify_sequential_chains(trace) ==
    <<[type |-> "chain", length |-> 3, location |-> "root_step_0"]>>

_identify_recursive_loops(trace) ==
    <<[type |-> "loop", depth |-> 2, location |-> "root_step_1"]>>

_identify_branching_patterns_measured(trace) ==
    <<[type |-> "branch", factor |-> Len(trace.root.children),
       location |-> "root_step_2"]>>
_identify_branching_patterns(trace) ==
    <<[type |-> "branch", factor |-> 2, location |-> "root_step_2"]>>

_extract_patterns(trace) ==
    [sequential_chains |-> _identify_sequential_chains(trace),
     recursive_loops |-> _identify_recursive_loops(trace),
     branching_patterns |-> _identify_branching_patterns(trace)]

\* Called by analyze_trace and defined nowhere in the source files: their
\* values are left opaque.
_detect_recursive_structures(trace) == "unspecified"
_analyze_transformations(trace) == "unspecified"

analyze_trace_recomputed(trace) ==
    LET depth == _calculate_trace_depth(trace.root)
        breadth == _calculate_trace_breadth(trace.root)
        node_count == _count_nodes(trace.root)
        patterns == _extract_patterns(trace)
        recursion_depth_index == _calculate_recursion_depth_index(trace)
        branching_factor == _calculate_branching_factor(trace)
        recursive_structures == _detect_recursive_structures(trace)
        transformations == _analyze_transformations(trace)
    IN  [depth |-> depth,
         breadth |-> breadth,
         node_count |-> node_count,
         recursion_depth_index |-> recursion_depth_index,
         branching_factor |-> branching_factor,
         patterns |-> patterns,
         recursive_structures |-> recursive_structures,
         transformations |-> transformations]
analyze_trace(trace) ==
    LET depth == trace.depth
        breadth == _calculate_trace_breadth(trace.root)
        node_count == _count_nodes(trace.root)
        patterns == _extract_patterns(trace)
        recursion_depth_index == _calculate_recursion_depth_index(trace)
        branching_factor == _calculate_branching_factor(trace)
        recursive_structures == _detect_recursive_structures(trace)
        transformations == _analyze_transformations(trace)
    IN  [depth |-> depth,
         breadth |-> breadth,
         node_count |-> node_count,
         recursion_depth_index |-> recursion_depth_index,
         branching_factor |-> branching_factor,
         patterns |-> patterns,
         recursive_structures |-> recursive_structures,
         transformations |-> transformations]

----------------------------------------------------------------------------
(* extract_trace *)

default_max_depth == 10

default_config ==
    [max_depth |-> default_max_depth, track_intermediate |-> TRUE,
     include_metadata |-> TRUE, trace_attribution |-> TRUE]

\* A config argument: None, or a dict
NoneConfig == [is_none |-> TRUE, dict |-> EmptyDict]
DictConfig(d) == [is_none |-> FALSE, dict |-> d]

\* "if config:" is false for None and for the empty dict
Truthy(config) == ~config.is_none /\ DOMAIN config.dict # {}

EffectiveConfig_defaults_over(config) ==
    IF Truthy(config) THEN DictMerge(config.dict, default_config) ELSE default_config
EffectiveConfig(config) ==
    IF Truthy(config) THEN DictMerge(default_config, config.dict) ELSE default_config

_convert_system_trace_passthrough(system_trace) ==
    RecursiveTrace(
        TraceNode("root", "input", system_trace, EmptyDict, <<>>),
        0,
        EmptyDict)
_convert_system_trace(system_trace) ==
    RecursiveTrace(
        TraceNode("root", "input", "System-provided trace root", EmptyDict, <<>>),
        0,
        EmptyDict)

_generic_trace_extraction_requested(system, input_data, config, now) ==
    LET root0 == TraceNode("input_0", "input", input_data,
                           Dict1("timestamp", now), <<>>)
        root == _trace_recursive_processing(root0, 0, config["max_depth"])
    IN  RecursiveTrace(root, config["max_depth"],
                       Dict1("system_type", system.type_name))
_generic_trace_extraction(system, input_data, config, now) ==
    LET root0 == TraceNode("input_0", "input", input_data,
                           Dict1("timestamp", now), <<>>)
        root == _trace_recursive_processing(root0, 0, config["max_depth"])
        depth == _calculate_trace_depth(root)
    IN  RecursiveTrace(root, depth, Dict1("system_type", system.type_name))

\* self.traces.append(trace)
StoreTrace_prepend(history, trace) == <<trace>> \o history
StoreTrace(history, trace) == Append(history, trace)

----------------------------------------------------------------------------
(* Inputs *)

Systems ==
    {[type_name |-> "object", has_process_with_trace |-> FALSE],
     [type_name |-> "TracingSystem", has_process_with_trace |-> TRUE]}

InputData == {"x"}

\* what system.process_with_trace may hand back
SystemTraces == {"system trace A", "system trace B"}

\* config arguments that name max_depth
Configs == {DictConfig(Dict1("max_depth", d)) : d \in -1 .. MaxDepth}

Call(system, input_data, config) ==
    [system |-> system, input_data |-> input_data, config |-> config]

RECURSIVE CallerTrees(_, _)
RECURSIVE CallerForests(_, _, _)
\* every tree of exactly n nodes a caller can build by hand
CallerTrees(n, id) ==
    {TraceNode(id, "step", "payload", EmptyDict, f) : f \in CallerForests(n - 1, id, 0)}
CallerForests(m, id, idx) ==
    IF m = 0
    THEN {<<>>}
    ELSE UNION {{<<t>> \o f : t \in CallerTrees(k, id \o "." \o ToString(idx)),
                              f \in CallerForests(m - k, id, idx + 1)} : k \in 1 .. m}

\* caller-built traces: any tree of at most MaxNodes nodes, any stored depth
CallerTraces ==
    UNION {{RecursiveTrace(r, d, EmptyDict) : r \in CallerTrees(n, "n"),
                                              d \in 0 .. MaxNodes - 1} : n \in 1 .. MaxNodes}

----------------------------------------------------------------------------
(* The traversals, call by call, over a node graph held by reference.  The   *)
(* children lists name nodes, so a list can name an ancestor of its owner.   *)

WalkIdle ==
    /\ heap = <<>>
    /\ stack = <<>>
    /\ walk_kind = "none"
    /\ walk_status = "idle"
    /\ walk_result = <<>>

\* no synthetic build, no followed extract_trace call and no calculator call
\* has started
BuildIdle ==
    /\ nodes = <<>>
    /\ lists = <<>>
    /\ frames = <<>>
    /\ building = <<>>
    /\ resolving = <<>>
    /\ bridge_history = <<>>
    /\ constraint_history = <<>>
    /\ coherence_history = <<>>
    /\ calc_log = <<>>

NodeRefs == 1 .. HeapNodes
RootRef == 1

\* children lists of at most two references
ChildRefLists ==
    {<<>>} \cup {<<a>> : a \in NodeRefs} \cup {<<a, b>> : a \in NodeRefs, b \in NodeRefs}

WalkKinds ==
    {"_calculate_trace_depth", "_calculate_trace_breadth", "_count_nodes",
     "count_children_and_nodes"}

Frame(node, idx, results) == [node |-> node, idx |-> idx, results |-> results]

\* what a call returns once the calls on all its children have returned
WalkValue(kind, children, results) ==
    CASE kind = "_calculate_trace_depth" ->
             IF children = <<>> THEN 0 ELSE 1 + SeqMax(results)
      [] kind = "_calculate_trace_breadth" ->
             IF children = <<>>
             THEN 1
             ELSE Max(Len(children), IF results # <<>> THEN SeqMax(results) ELSE 0)
      [] kind = "_count_nodes" ->
             IF children = <<>> THEN 1 ELSE 1 + SeqSum(results)
      [] kind = "count_children_and_nodes" ->
             IF children = <<>>
             THEN LeafPair
             ELSE <<Len(children) + SeqSum(List([k \in 1 .. Len(results) |-> First(results[k])])),
                    1 + SeqSum(List([k \in 1 .. Len(results) |-> Second(results[k])]))>>

Top == stack[Len(stack)]

\* the call on the next child: one more active call
WalkDescend ==
    /\ walk_status = "running"
    /\ Top.idx <= Len(heap[Top.node])
    /\ Len(stack) < RecursionLimit
    /\ stack' = Append(stack, Frame(heap[Top.node][Top.idx], 1, <<>>))
    /\ UNCHANGED <<heap, walk_kind, walk_status, walk_result>>
    /\ UNCHANGED analyzer_vars
    /\ UNCHANGED build_vars
    /\ UNCHANGED config_vars
    /\ UNCHANGED calc_vars

\* the call on the next child would exceed the interpreter's limit: the
\* interpreter raises RecursionError, which no traversal catches
WalkOverflow ==
    /\ walk_status = "running"
    /\ Top.idx <= Len(heap[Top.node])
    /\ Len(stack) >= RecursionLimit
    /\ stack' = <<>>
    /\ walk_status' = "RecursionError"
    /\ UNCHANGED <<heap, walk_kind, walk_result>>
    /\ UNCHANGED analyzer_vars
    /\ UNCHANGED build_vars
    /\ UNCHANGED config_vars
    /\ UNCHANGED calc_vars

\* a call whose children are all done returns its value to its caller
WalkReturn ==
    /\ walk_status = "running"
    /\ Top.idx > Len(heap[Top.node])
    /\ LET value == WalkValue(walk_kind, heap[Top.node], Top.results)
           rest == SubSeq(stack, 1, Len(stack) - 1)
       IN  IF rest = <<>>
           THEN /\ stack' = <<>>
                /\ walk_status' = "returned"
                /\ walk_result' = <<value>>
           ELSE /\ stack' = [rest EXCEPT ![Len(rest)] =
                                 Frame(@.node, @.idx + 1, Append(@.results, value))]
                /\ UNCHANGED <<walk_status, walk_result>>
    /\ UNCHANGED <<heap, walk_kind>>
    /\ UNCHANGED analyzer_vars
    /\ UNCHANGED build_vars
    /\ UNCHANGED config_vars
    /\ UNCHANGED calc_vars

InitWalk ==
    /\ traces = <<>>
    /\ returned = <<>>
    /\ analysed = <<>>
    /\ analysis = <<>>
    /\ clock = 0
    /\ pwt_calls = 0
    /\ calls = <<>>
    /\ measured = <<>>
    /\ heap \in [NodeRefs -> ChildRefLists]
    /\ walk_kind \in WalkKinds
    /\ stack = <<Frame(RootRef, 1, <<>>)>>
    /\ walk_status = "running"
    /\ walk_result = <<>>
    /\ BuildIdle

NextWalk == WalkDescend \/ WalkOverflow \/ WalkReturn

SpecWalk == InitWalk /\ [][NextWalk]_vars

----------------------------------------------------------------------------
(* The analyzer as a state machine *)

Init ==
    /\ traces = <<>>
    /\ returned = <<>>
    /\ analysed = <<>>
    /\ analysis = <<>>
    /\ clock = 0
    /\ pwt_calls = 0
    /\ calls = <<>>
    /\ measured = <<>>
    /\ WalkIdle
    /\ BuildIdle

\* extract_trace through system.process_with_trace
ExtractSystemTrace ==
    \E system \in Systems, input_data \in InputData, config \in Configs,
       system_trace \in SystemTraces :
        /\ Len(traces) < MaxTraces
        /\ system.has_process_with_trace
        /\ LET cfg == EffectiveConfig(config)
               trace == _convert_system_trace(system_trace)
           IN  /\ traces' = StoreTrace(traces, trace)
               /\ returned' = <<trace>>
        /\ pwt_calls' = pwt_calls + 1
        /\ calls' = Append(calls, Call(system, input_data, config))
        /\ UNCHANGED <<analysed, analysis, clock, measured>>
        /\ UNCHANGED walk_vars
        /\ UNCHANGED build_vars
        /\ UNCHANGED config_vars
        /\ UNCHANGED calc_vars

\* extract_trace through the generic (synthetic) builder
ExtractGenericTrace ==
    \E system \in Systems, input_data \in InputData, config \in Configs :
        /\ Len(traces) < MaxTraces
        /\ ~system.has_process_with_trace
        /\ LET cfg == EffectiveConfig(config)
               trace == _generic_trace_extraction(system, input_data, cfg, clock)
           IN  /\ traces' = StoreTrace(traces, trace)
               /\ returned' = <<trace>>
        /\ clock' = clock + 1
        /\ calls' = Append(calls, Call(system, input_data, config))
        /\ UNCHANGED <<analysed, analysis, pwt_calls, measured>>
        /\ UNCHANGED walk_vars
        /\ UNCHANGED build_vars
        /\ UNCHANGED config_vars
        /\ UNCHANGED calc_vars

\* analyze_trace on a trace extract_trace has returned
AnalyzeTrace ==
    \E i \in 1 .. Len(traces) :
        /\ analysed' = <<traces[i]>>
        /\ analysis' = <<analyze_trace(traces[i])>>
        /\ UNCHANGED <<traces, returned, clock, pwt_calls, calls, measured>>
        /\ UNCHANGED walk_vars
        /\ UNCHANGED build_vars
        /\ UNCHANGED config_vars
        /\ UNCHANGED calc_vars

Next == ExtractSystemTrace \/ ExtractGenericTrace \/ AnalyzeTrace

Spec == Init /\ [][Next]_vars

----------------------------------------------------------------------------
(* analyze_trace as a function of a caller-built trace *)

InitMetrics ==
    /\ traces = <<>>
    /\ returned = <<>>
    /\ analysed \in {<<t>> : t \in CallerTraces}
    /\ analysis = <<>>
    /\ clock = 0
    /\ pwt_calls = 0
    /\ calls = <<>>
    /\ measured = <<>>
    /\ WalkIdle
    /\ BuildIdle

AnalyzeCallerTrace ==
    /\ analysis = <<>>
    /\ analysis' = <<analyze_trace(analysed[1])>>
    /\ UNCHANGED <<traces, returned, analysed, clock, pwt_calls, calls, measured>>
    /\ UNCHANGED walk_vars
    /\ UNCHANGED build_vars
    /\ UNCHANGED config_vars
    /\ UNCHANGED calc_vars

\* _calculate_trace_depth called on the root of the caller's trace
MeasureCallerTrace ==
    /\ measured = <<>>
    /\ measured' = <<_calculate_trace_depth(analysed[1].root)>>
    /\ UNCHANGED <<traces, returned, analysed, analysis, clock, pwt_calls, calls>>
    /\ UNCHANGED walk_vars
    /\ UNCHANGED build_vars
    /\ UNCHANGED config_vars
    /\ UNCHANGED calc_vars

NextMetrics == AnalyzeCallerTrace \/ MeasureCallerTrace

SpecMetrics == InitMetrics /\ [][NextMetrics]_vars

----------------------------------------------------------------------------
(* The synthetic builder, statement by statement, over objects held by      *)
(* reference.  nodes[n] is the TraceNode object n; its children field names *)
(* a list object, and lists[l] is what list object l holds.  A trace in the *)
(* history names its root object.                                           *)

\* config arguments of the builds followed statement by statement
BuildConfigs == {DictConfig(Dict1("max_depth", d)) : d \in -1 .. MaxBuildDepth}

\* children: List['TraceNode'] = field(default_factory=list): a TraceNode
\* constructed without a children argument gets a new list object
default_factory_shared(allocated) == 1
default_factory(allocated) == Len(allocated) + 1

\* an activation of _trace_recursive_processing at line 163; i is the value
\* the loop takes next, step_node is 0 while the name is unbound
Activation_restart(parent_node, current_depth, max_depth) ==
    [parent_node |-> parent_node, current_depth |-> 0,
     max_depth |-> max_depth, pc |-> "guard", i |-> 0, step_node |-> 0]
Activation(parent_node, current_depth, max_depth) ==
    [parent_node |-> parent_node, current_depth |-> current_depth,
     max_depth |-> max_depth, pc |-> "guard", i |-> 0, step_node |-> 0]

Innermost == frames[Len(frames)]
Callers == SubSeq(frames, 1, Len(frames) - 1)

\* the list parent_node.children names
AppendTarget_first(frame) == nodes[1].children
AppendTarget(frame) == nodes[frame.parent_node].children

\* list.append(step_node)
AppendChild_front(children, step_node) == <<step_node>> \o children
AppendChild(children, step_node) == Append(children, step_node)

RECURSIVE Unfold(_, _)
\* the TraceNode record of object n with its children read through the
\* references, at most fuel levels down
Unfold(n, fuel) ==
    LET kids == lists[nodes[n].children]
    IN  [nodes[n] EXCEPT !.children =
            IF fuel = 0
            THEN <<>>
            ELSE List([k \in 1 .. Len(kids) |-> Unfold(kids[k], fuel - 1)])]

\* a trace of the history with its tree read through the references
TraceValue(trace) ==
    RecursiveTrace(Unfold(trace.root, Len(nodes)), trace.depth, trace.metadata)

\* extract_trace down to line 138: the root is constructed and
\* _trace_recursive_processing(system, root, 0, config['max_depth']) is called
BuildStart ==
    \E system \in Systems, input_data \in InputData, config \in BuildConfigs :
        /\ building = <<>>
        /\ Len(traces) < MaxBuilds
        /\ ~system.has_process_with_trace
        /\ LET cfg == EffectiveConfig(config)
               root == Len(nodes) + 1
           IN  /\ nodes' = Append(nodes,
                       TraceNode("input_0", "input", input_data,
                                 Dict1("timestamp", clock), default_factory(lists)))
               /\ lists' = Append(lists, <<>>)
               /\ building' = <<[system |-> system, root |-> root, config |-> cfg]>>
               /\ frames' = <<Activation(root, 0, cfg["max_depth"])>>
        /\ clock' = clock + 1
        /\ calls' = Append(calls, Call(system, input_data, config))
        /\ UNCHANGED <<traces, returned, analysed, analysis, pwt_calls, measured>>
        /\ UNCHANGED walk_vars
        /\ UNCHANGED config_vars
        /\ UNCHANGED calc_vars

\* if current_depth >= max_depth: return
GuardReturn ==
    /\ frames # <<>>
    /\ Innermost.pc = "guard"
    /\ AtMaxDepth(Innermost.current_depth, Innermost.max_depth)
    /\ frames' = Callers
    /\ UNCHANGED <<nodes, lists, building>>
    /\ UNCHANGED analyzer_vars
    /\ UNCHANGED walk_vars
    /\ UNCHANGED config_vars
    /\ UNCHANGED calc_vars

\* the guard of line 163 is false: on to the loop
GuardPass ==
    /\ frames # <<>>
    /\ Innermost.pc = "guard"
    /\ ~AtMaxDepth(Innermost.current_depth, Innermost.max_depth)
    /\ frames' = [frames EXCEPT ![Len(frames)].pc = "loop"]
    /\ UNCHANGED <<nodes, lists, building>>
    /\ UNCHANGED analyzer_vars
    /\ UNCHANGED walk_vars
    /\ UNCHANGED config_vars
    /\ UNCHANGED calc_vars

\* step_node = TraceNode(...)
CreateStepNode ==
    /\ frames # <<>>
    /\ Innermost.pc = "loop"
    /\ Innermost.i < StepCount
    /\ LET made == StepNode(nodes[Innermost.parent_node], Innermost.i,
                            Innermost.current_depth)
       IN  nodes' = Append(nodes, [made EXCEPT !.children = default_factory(lists)])
    /\ lists' = Append(lists, <<>>)
    /\ frames' = [frames EXCEPT ![Len(frames)].pc = "append",
                                ![Len(frames)].step_node = Len(nodes) + 1]
    /\ UNCHANGED building
    /\ UNCHANGED analyzer_vars
    /\ UNCHANGED walk_vars
    /\ UNCHANGED config_vars
    /\ UNCHANGED calc_vars

\* parent_node.children.append(step_node)
AppendStepNode ==
    /\ frames # <<>>
    /\ Innermost.pc = "append"
    /\ lists' = [lists EXCEPT ![AppendTarget(Innermost)] =
                     AppendChild(@, Innermost.step_node)]
    /\ frames' = [frames EXCEPT ![Len(frames)].pc = "branch"]
    /\ UNCHANGED <<nodes, building>>
    /\ UNCHANGED analyzer_vars
    /\ UNCHANGED walk_vars
    /\ UNCHANGED config_vars
    /\ UNCHANGED calc_vars

\* if current_depth < max_depth - 1: the call on step_node
Recurse ==
    /\ frames # <<>>
    /\ Innermost.pc = "branch"
    /\ ShouldRecurse(Innermost.current_depth, Innermost.max_depth)
    /\ frames' = Append([frames EXCEPT ![Len(frames)].pc = "loop",
                                       ![Len(frames)].i = @ + 1],
                        Activation(Innermost.step_node,
                                   Innermost.current_depth + 1,
                                   Innermost.max_depth))
    /\ UNCHANGED <<nodes, lists, building>>
    /\ UNCHANGED analyzer_vars
    /\ UNCHANGED walk_vars
    /\ UNCHANGED config_vars
    /\ UNCHANGED calc_vars

\* the test of line 181 is false: on to the next i
SkipRecurse ==
    /\ frames # <<>>
    /\ Innermost.pc = "branch"
    /\ ~ShouldRecurse(Innermost.current_depth, Innermost.max_depth)
    /\ frames' = [frames EXCEPT ![Len(frames)].pc = "loop",
                                ![Len(frames)].i = @ + 1]
    /\ UNCHANGED <<nodes, lists, building>>
    /\ UNCHANGED analyzer_vars
    /\ UNCHANGED walk_vars
    /\ UNCHANGED config_vars
    /\ UNCHANGED calc_vars

\* range(3) is exhausted: the call returns
LoopExit ==
    /\ frames # <<>>
    /\ Innermost.pc = "loop"
    /\ Innermost.i >= StepCount
    /\ frames' = Callers
    /\ UNCHANGED <<nodes, lists, building>>
    /\ UNCHANGED analyzer_vars
    /\ UNCHANGED walk_vars
    /\ UNCHANGED config_vars
    /\ UNCHANGED calc_vars

\* lines 141-147 and 101-103: the depth is measured, the trace is made,
\* stored and returned
BuildFinish ==
    /\ building # <<>>
    /\ frames = <<>>
    /\ LET root == building[1].root
           depth == _calculate_trace_depth(Unfold(root, Len(nodes)))
           trace == RecursiveTrace(root, depth,
                        Dict1("system_type", building[1].system.type_name))
       IN  /\ traces' = StoreTrace(traces, trace)
           /\ returned' = <<trace>>
    /\ building' = <<>>
    /\ UNCHANGED <<nodes, lists, frames>>
    /\ UNCHANGED <<analysed, analysis, clock, pwt_calls, calls, measured>>
    /\ UNCHANGED walk_vars
    /\ UNCHANGED config_vars
    /\ UNCHANGED calc_vars

\* analyze_trace on a trace of the history, between two extract_trace calls
AnalyzeBuilt ==
    \E k \in 1 .. Len(traces) :
        /\ building = <<>>
        /\ analysed' = <<traces[k]>>
        /\ analysis' = <<analyze_trace(TraceValue(traces[k]))>>
        /\ UNCHANGED <<traces, returned, clock, pwt_calls, calls, measured>>
        /\ UNCHANGED walk_vars
        /\ UNCHANGED build_vars
        /\ UNCHANGED config_vars
        /\ UNCHANGED calc_vars

NextBuild ==
    \/ BuildStart
    \/ GuardReturn
    \/ GuardPass
    \/ CreateStepNode
    \/ AppendStepNode
    \/ Recurse
    \/ SkipRecurse
    \/ LoopExit
    \/ BuildFinish
    \/ AnalyzeBuilt

SpecBuild == Init /\ [][NextBuild]_vars

\* the statements of a _trace_recursive_processing call
ProcessingStatement ==
    \/ GuardReturn
    \/ GuardPass
    \/ CreateStepNode
    \/ AppendStepNode
    \/ Recurse
    \/ SkipRecurse
    \/ LoopExit

\* the interpreter executes the next statement of a call in progress; when
\* the caller makes a call is up to the caller
SpecBuildLive == SpecBuild /\ WF_vars(ProcessingStatement)

----------------------------------------------------------------------------
(* One extract_trace call, with any config argument: first the configuration *)
(* (lines 75-87), then the dispatch on the system (lines 92-103).            *)

\* the dicts a caller passes: any of max_depth, track_intermediate (a key of
\* the defaults) and verbose (a key the defaults do not have), or none
CallerDicts ==
    {DictMerge(DictMerge(a, b), c) :
        a \in {EmptyDict} \cup {Dict1("max_depth", d) : d \in -1 .. MaxDepth},
        b \in {EmptyDict} \cup {Dict1("track_intermediate", v) : v \in BOOLEAN},
        c \in {EmptyDict, Dict1("verbose", TRUE)}}

AnyConfigs == {NoneConfig} \cup {DictConfig(d) : d \in CallerDicts}

\* lines 75-87: config is bound to the effective configuration
ExtractEnter ==
    \E system \in Systems, input_data \in InputData, config \in AnyConfigs :
        /\ calls = <<>>
        /\ resolving = <<>>
        /\ resolving' = <<[system |-> system, input_data |-> input_data,
                           config |-> EffectiveConfig(config)]>>
        /\ calls' = Append(calls, Call(system, input_data, config))
        /\ UNCHANGED <<traces, returned, analysed, analysis, clock, pwt_calls, measured>>
        /\ UNCHANGED walk_vars
        /\ UNCHANGED build_vars
        /\ UNCHANGED calc_vars

\* lines 92-95 and 101-103: the system has process_with_trace
ExtractViaSystem ==
    \E system_trace \in SystemTraces :
        /\ resolving # <<>>
        /\ traces = <<>>
        /\ resolving[1].system.has_process_with_trace
        /\ LET trace == _convert_system_trace(system_trace)
           IN  /\ traces' = StoreTrace(traces, trace)
               /\ returned' = <<trace>>
        /\ pwt_calls' = pwt_calls + 1
        /\ UNCHANGED <<analysed, analysis, clock, calls, measured>>
        /\ UNCHANGED walk_vars
        /\ UNCHANGED build_vars
        /\ UNCHANGED config_vars
        /\ UNCHANGED calc_vars

\* lines 96-103: the system has no process_with_trace
ExtractViaBuilder ==
    /\ resolving # <<>>
    /\ traces = <<>>
    /\ ~resolving[1].system.has_process_with_trace
    /\ LET trace == _generic_trace_extraction(resolving[1].system,
                        resolving[1].input_data, resolving[1].config, clock)
       IN  /\ traces' = StoreTrace(traces, trace)
           /\ returned' = <<trace>>
    /\ clock' = clock + 1
    /\ UNCHANGED <<analysed, analysis, pwt_calls, calls, measured>>
    /\ UNCHANGED walk_vars
    /\ UNCHANGED build_vars
    /\ UNCHANGED config_vars
    /\ UNCHANGED calc_vars

NextConfig == ExtractEnter \/ ExtractViaSystem \/ ExtractViaBuilder

SpecConfig == Init /\ [][NextConfig]_vars

----------------------------------------------------------------------------
(* The scalar calculators of bridge_equation.py, constraint_equations.py and *)
(* recursive_coherence.py.  Arguments are floats with integer values; a      *)
(* float power is exact while it is representable and raises OverflowError   *)
(* in CPython when it is not.                                                *)

\* 2.0 ** x is representable for x below 1024 (IEEE 754 double precision)
FloatMaxExp == 1024

\* coefficient arguments: below, at both ends of, and above the range 0..1
Coefficients == -1 .. 2

\* recursive_depth arguments: negative, small, and one that is large
Depths == (-1 .. MaxCalcDepth) \cup {FloatMaxExp}

RECURSIVE IntPow(_, _)
IntPow(base, exponent) == IF exponent = 0 THEN 1 ELSE base * IntPow(base, exponent - 1)

\* base ** exponent for floats 0 <= base <= 2 and exponent >= 0
FloatPow(base, exponent) ==
    IF exponent = 0 \/ base = 1 THEN [raised |-> "none", value |-> 1]
    ELSE IF base = 0 THEN [raised |-> "none", value |-> 0]
    ELSE IF exponent >= FloatMaxExp
         THEN [raised |-> "OverflowError", value |-> 0]
         ELSE [raised |-> "none", value |-> IntPow(base, exponent)]

\* if not 0 <= x <= 1
OutsideUnit(x) == ~(0 <= x /\ x <= 1)

\* BridgeEquation._validate_inputs: does it raise ValueError
bridge_validate_inputs(symbolic_encoding_equivalence, constraint, recursive_depth) ==
    \/ OutsideUnit(symbolic_encoding_equivalence)
    \/ OutsideUnit(constraint)
    \/ recursive_depth < 0

\* ConstraintEquation._validate_inputs: does it raise ValueError
constraint_validate_inputs(constraint, suppression, expression, recursive_depth) ==
    \/ OutsideUnit(constraint)
    \/ OutsideUnit(suppression)
    \/ OutsideUnit(expression)
    \/ recursive_depth < 0

\* RecursiveCoherence._validate_components: does it raise ValueError
_validate_components(components) ==
    \/ OutsideUnit(components.signal_alignment)
    \/ OutsideUnit(components.feedback_responsiveness)
    \/ OutsideUnit(components.bounded_integrity)
    \/ OutsideUnit(components.tension_capacity)

CoherenceComponents(s, f, b, t) ==
    [signal_alignment |-> s, feedback_responsiveness |-> f,
     bounded_integrity |-> b, tension_capacity |-> t]

\* one entry of calc_log
CalcCall(op, args, raised, result) ==
    [op |-> op, args |-> args, raised |-> raised, result |-> result]

\* BridgeEquation.calculate_boundary_collapse
calculate_boundary_collapse ==
    \E symbolic_encoding_equivalence \in Coefficients, constraint \in Coefficients,
       recursive_depth \in Depths :
        LET args == [symbolic_encoding_equivalence |-> symbolic_encoding_equivalence,
                     constraint |-> constraint,
                     recursive_depth |-> recursive_depth]
            power == FloatPow(constraint, recursive_depth)
            boundary_collapse == symbolic_encoding_equivalence * power.value
        IN  /\ Len(calc_log) < MaxCalcs
            /\ IF bridge_validate_inputs(symbolic_encoding_equivalence, constraint,
                                         recursive_depth)
               THEN /\ calc_log' = Append(calc_log,
                           CalcCall("calculate_boundary_collapse", args, "ValueError", 0))
                    /\ UNCHANGED bridge_history
               ELSE IF power.raised # "none"
               THEN /\ calc_log' = Append(calc_log,
                           CalcCall("calculate_boundary_collapse", args, power.raised, 0))
                    /\ UNCHANGED bridge_history
               ELSE /\ bridge_history' = Append(bridge_history,
                           [symbolic_encoding_equivalence |-> symbolic_encoding_equivalence,
                            constraint |-> constraint,
                            recursive_depth |-> recursive_depth,
                            boundary_collapse |-> boundary_collapse])
                    /\ calc_log' = Append(calc_log,
                           CalcCall("calculate_boundary_collapse", args, "none",
                                    boundary_collapse))
            /\ UNCHANGED <<constraint_history, coherence_history>>
            /\ UNCHANGED <<analyzer_vars, walk_vars, build_vars, config_vars>>

\* ConstraintEquation.calculate_residue
calculate_residue ==
    \E constraint \in Coefficients, suppression \in Coefficients,
       expression \in Coefficients, recursive_depth \in Depths :
        LET args == [constraint |-> constraint, suppression |-> suppression,
                     expression |-> expression, recursive_depth |-> recursive_depth]
            power == FloatPow(suppression + expression, recursive_depth)
            residue == constraint * power.value
        IN  /\ Len(calc_log) < MaxCalcs
            /\ IF constraint_validate_inputs(constraint, suppression, expression,
                                             recursive_depth)
               THEN /\ calc_log' = Append(calc_log,
                           CalcCall("calculate_residue", args, "ValueError", 0))
                    /\ UNCHANGED constraint_history
               ELSE IF power.raised # "none"
               THEN /\ calc_log' = Append(calc_log,
                           CalcCall("calculate_residue", args, power.raised, 0))
                    /\ UNCHANGED constraint_history
               ELSE /\ constraint_history' = Append(constraint_history,
                           [constraint |-> constraint, suppression |-> suppression,
                            expression |-> expression,
                            recursive_depth |-> recursive_depth,
                            residue |-> residue])
                    /\ calc_log' = Append(calc_log,
                           CalcCall("calculate_residue", args, "none", residue))
            /\ UNCHANGED <<bridge_history, coherence_history>>
            /\ UNCHANGED <<analyzer_vars, walk_vars, build_vars, config_vars>>

\* RecursiveCoherence.calculate_coherence
calculate_coherence ==
    \E s \in Coefficients, f \in Coefficients, b \in Coefficients, t \in Coefficients :
        LET components == CoherenceComponents(s, f, b, t)
            coherence == components.signal_alignment
                             * components.feedback_responsiveness
                             * components.bounded_integrity
                             * components.tension_capacity
        IN  /\ Len(calc_log) < MaxCalcs
            /\ IF _validate_components(components)
               THEN /\ calc_log' = Append(calc_log,
                           CalcCall("calculate_coherence", components, "ValueError", 0))
                    /\ UNCHANGED coherence_history
               ELSE /\ coherence_history' = Append(coherence_history,
                           [signal_alignment |-> components.signal_alignment,
                            feedback_responsiveness |-> components.feedback_responsiveness,
                            bounded_integrity |-> components.bounded_integrity,
                            tension_capacity |-> components.tension_capacity,
                            coherence |-> coherence])
                    /\ calc_log' = Append(calc_log,
                           CalcCall("calculate_coherence", components, "none", coherence))
            /\ UNCHANGED <<bridge_history, constraint_history>>
            /\ UNCHANGED <<analyzer_vars, walk_vars, build_vars, config_vars>>

NextCalc == calculate_boundary_collapse \/ calculate_residue \/ calculate_coherence

SpecCalc == Init /\ [][NextCalc]_vars

----------------------------------------------------------------------------
(* Reference notions the properties are stated with, defined on the set of  *)
(* paths of a tree rather than by the analyzer's traversals.                *)

RECURSIVE Paths(_)
\* the paths (sequences of child positions) from node to every node below it
Paths(node) ==
    {<<>>} \cup UNION {{<<k>> \o p : p \in Paths(node.children[k])} :
                           k \in 1 .. Len(node.children)}

RECURSIVE NodeAt(_, _)
NodeAt(node, path) ==
    IF path = <<>> THEN node ELSE NodeAt(node.children[Head(path)], Tail(path))

SetMax(S) == CHOOSE x \in S : \A y \in S : y <= x

\* number of nodes, and length in edges of the longest downward path
TreeSize(node) == Cardinality(Paths(node))
TreeHeight(node) == SetMax({Len(p) : p \in Paths(node)})

IsLeafOnly(node) == node.children = <<>>

RECURSIVE IsChain(_)
\* every node has at most one child
IsChain(node) ==
    \/ node.children = <<>>
    \/ Len(node.children) = 1 /\ IsChain(node.children[1])

RECURSIVE Pow3(_)
Pow3(n) == IF n = 0 THEN 1 ELSE 3 * Pow3(n - 1)

\* node count of a complete ternary tree of height D
TernarySize(D) == (Pow3(D + 1) - 1) \div 2

IsGenericCall(call) == ~call.system.has_process_with_trace
RequestedDepth(call) == EffectiveConfig(call.config)["max_depth"]

\* positions of the history filled by the synthetic builder with max_depth D
BuiltWith(D) ==
    {i \in 1 .. Len(traces) : IsGenericCall(calls[i]) /\ RequestedDepth(calls[i]) = D}

BuiltDepths == {D \in -1 .. MaxDepth : BuiltWith(D) # {}}

----------------------------------------------------------------------------
(* Properties *)

\* C1: for every max_depth D >= 0, the trace extract_trace builds through the
\* generic builder has stored depth D and a tree of (3^(D+1) - 1) / 2 nodes.
Thm_C1 ==
    \A D \in BuiltDepths : \A i \in BuiltWith(D) :
        D >= 0 => /\ traces[i].depth = D
                  /\ TreeSize(traces[i].root) = TernarySize(D)

Wit_C1 ==
    \E i \in BuiltWith(2) :
        traces[i].depth = 2 /\ TreeSize(traces[i].root) = 13

\* C2 as stated: on the synthetic tree of every height D >= 1,
\* _calculate_branching_factor is exactly 3.
CE_C2 ==
    \A D \in BuiltDepths : \A i \in BuiltWith(D) :
        D >= 1 => FracEq(_calculate_branching_factor(traces[i]), Frac(3, 1))

\* C2 amended: on the synthetic tree of every height D >= 1,
\* _calculate_branching_factor is (N - 1) / N with N = (3^(D+1) - 1) / 2 the
\* node count, that is (3^(D+1) - 3) / (3^(D+1) - 1), which is below 1.
Thm_C2 ==
    \A D \in BuiltDepths : \A i \in BuiltWith(D) :
        D >= 1 =>
            LET bf == _calculate_branching_factor(traces[i])
            IN  /\ bf.den = TernarySize(D)
                /\ bf.num = TernarySize(D) - 1
                /\ FracEq(bf, Frac(Pow3(D + 1) - 3, Pow3(D + 1) - 1))
                /\ FracLtInt(bf, 1)

Wit_C2 ==
    \E i \in BuiltWith(1) : _calculate_branching_factor(traces[i]) = Frac(3, 4)

\* the analysed trace is one the synthetic builder made with max_depth D
AnalysedBuiltWith(D) ==
    /\ analysed # <<>>
    /\ \E i \in BuiltWith(D) : traces[i] = analysed[1]

\* C3 as stated: analyze_trace on the synthetic trace of max_depth 3 gives
\* depth 3, node_count 40 and branching_factor 3.0.
CE_C3 ==
    AnalysedBuiltWith(3) =>
        /\ analysis[1].depth = 3
        /\ analysis[1].node_count = 40
        /\ FracEq(analysis[1].branching_factor, Frac(3, 1))

\* C3 amended: analyze_trace on the synthetic trace of max_depth 3 gives
\* depth 3, node_count 40 and branching_factor 39/40 = 0.975.
Thm_C3 ==
    AnalysedBuiltWith(3) =>
        /\ analysis[1].depth = 3
        /\ analysis[1].node_count = 40
        /\ analysis[1].branching_factor = Frac(39, 40)

Wit_C3 == AnalysedBuiltWith(3) /\ analysis[1].node_count = 40

\* C4: on a trace whose root has no children _calculate_branching_factor is
\* exactly 0, and the quotient is taken over a non-zero node total.
Thm_C4 ==
    (analysis # <<>> /\ IsLeafOnly(analysed[1].root)) =>
        /\ analysis[1].branching_factor.den # 0
        /\ analysis[1].branching_factor.num = 0
        /\ count_children_and_nodes(analysed[1].root)[2] # 0

Wit_C4 ==
    /\ analysis # <<>>
    /\ IsLeafOnly(analysed[1].root)
    /\ analysis[1].branching_factor = Frac(0, 1)

\* C5: on every trace whose branching factor is at most 1 (a single node and
\* a pure chain among them) _calculate_recursion_depth_index returns exactly 0.
Thm_C5 ==
    (analysis # <<>> /\ FracLeInt(_calculate_branching_factor(analysed[1]), 1)) =>
        /\ analysis[1].recursion_depth_index.branch = "guard"
        /\ RdiIsZero(analysis[1].recursion_depth_index)

Wit_C5 ==
    /\ analysis # <<>>
    /\ IsChain(analysed[1].root)
    /\ TreeSize(analysed[1].root) = 3
    /\ analysed[1].depth = 2
    /\ RdiIsZero(analysis[1].recursion_depth_index)

\* C6 as stated: an extract_trace call through the synthetic builder with a
\* negative max_depth returns no trace and appends none to the history.
CE_C6 ==
    [][(/\ Len(calls') = Len(calls) + 1
        /\ IsGenericCall(calls'[Len(calls')])
        /\ RequestedDepth(calls'[Len(calls')]) < 0)
          => (traces' = traces /\ returned' = <<>>)]_vars

ChildRefs(a) == {heap[a][k] : k \in 1 .. Len(heap[a])}

RECURSIVE ReachableIn(_, _)
\* the nodes at most n child steps below the nodes of S
ReachableIn(S, n) ==
    IF n = 0
    THEN S
    ELSE ReachableIn(S \cup UNION {ChildRefs(a) : a \in S}, n - 1)
Below(a) == ReachableIn(ChildRefs(a), HeapNodes)

\* some node under the root has one of its own ancestors (or itself) as a child
HasBackEdge == \E a \in {RootRef} \cup Below(RootRef) : a \in Below(a)

\* C7 as stated: on a node graph with a back-edge every traversal ends with a
\* MalformedTrace error.
CE_C7 ==
    (HasBackEdge /\ walk_status \notin {"idle", "running"})
        => walk_status = "MalformedTrace"

\* C8: the synthetic tree of max_depth D >= 0 is a complete ternary tree:
\* a node at distance less than D from the root has exactly 3 children, a
\* node at distance D has none, and no node lies further away.
Thm_C8 ==
    \A D \in BuiltDepths : \A i \in BuiltWith(D) :
        D >= 0 =>
            \A p \in Paths(traces[i].root) :
                LET node == NodeAt(traces[i].root, p)
                IN  /\ Len(p) <= D
                    /\ Len(p) < D => Len(node.children) = 3
                    /\ Len(p) = D => node.children = <<>>
                    /\ node.children = <<>> => Len(p) = D

Wit_C8 ==
    \E i \in BuiltWith(2) :
        /\ Len(traces[i].root.children) = 3
        /\ Len(traces[i].root.children[3].children) = 3
        /\ traces[i].root.children[3].children[3].children = <<>>

\* C9: every trace of the history, whichever path of extract_trace made it,
\* stores as depth the length of the longest path from its root to a leaf.
Thm_C9 ==
    \A i \in 1 .. Len(traces) : traces[i].depth = TreeHeight(traces[i].root)

Wit_C9 ==
    /\ Len(traces) = 2
    /\ ~IsGenericCall(calls[1]) /\ traces[1].depth = 0
    /\ 2 \in BuiltWith(-1) /\ traces[2].depth = 0

\* C10: the history starts empty, every extract_trace call puts exactly the
\* trace it returns at the end, and nothing else changes the history.
Thm_C10 ==
    /\ traces = <<>>
    /\ [][IF Len(calls') = Len(calls) + 1
          THEN /\ returned' # <<>>
               /\ traces' = Append(traces, returned'[1])
          ELSE traces' = traces]_vars

Wit_C10 ==
    /\ Len(traces) = 2
    /\ traces[1] # traces[2]
    /\ returned = <<traces[2]>>
    /\ analysis # <<>>

----------------------------------------------------------------------------
(* Properties of the traversals, on caller-built trees *)

\* the nodes of the tree under node
NodesOf(node) == {NodeAt(node, p) : p \in Paths(node)}

ChildSet(node) == {node.children[k] : k \in 1 .. Len(node.children)}

\* size of the largest children list anywhere under node, at least 1
WidestGroup(node) == SetMax({1} \cup {Len(n.children) : n \in NodesOf(node)})

\* C13: at every node of a finite tree _calculate_trace_depth is 0 on a node
\* without children and 1 + the largest value over the children otherwise,
\* which is the length in edges of the longest path down to a leaf.
Thm_C13 ==
    analysed # <<>> =>
        /\ \A n \in NodesOf(analysed[1].root) :
               /\ n.children = <<>> => _calculate_trace_depth(n) = 0
               /\ n.children # <<>> =>
                      _calculate_trace_depth(n) =
                          1 + SetMax({_calculate_trace_depth(c) : c \in ChildSet(n)})
               /\ _calculate_trace_depth(n) = TreeHeight(n)
        /\ measured # <<>> => measured[1] = TreeHeight(analysed[1].root)

Wit_C13 ==
    /\ measured = <<2>>
    /\ Len(analysed[1].root.children) = 2
    /\ TreeSize(analysed[1].root) = 5

\* C14: at every node of a finite tree _calculate_trace_breadth is 1 on a leaf
\* and max(len(children), largest child breadth) otherwise, which is the size
\* of the largest children list in the subtree, and never less than 1.
Thm_C14 ==
    analysed # <<>> =>
        /\ \A n \in NodesOf(analysed[1].root) :
               /\ n.children = <<>> => _calculate_trace_breadth(n) = 1
               /\ n.children # <<>> =>
                      _calculate_trace_breadth(n) =
                          SetMax({Len(n.children)}
                                     \cup {_calculate_trace_breadth(c) : c \in ChildSet(n)})
               /\ _calculate_trace_breadth(n) = WidestGroup(n)
        /\ analysis # <<>> => analysis[1].breadth = WidestGroup(analysed[1].root)

Wit_C14 ==
    /\ analysis # <<>>
    /\ analysis[1].breadth = 3
    /\ Len(analysed[1].root.children) = 1
    /\ TreeSize(analysed[1].root) = 5

\* C15: at every node of a finite tree _count_nodes is 1 + the sum of
\* _count_nodes over the children (1 on a leaf): the number of nodes of the
\* subtree, at least 1.
Thm_C15 ==
    analysed # <<>> =>
        /\ \A n \in NodesOf(analysed[1].root) :
               /\ _count_nodes(n) =
                      1 + SeqSum([k \in 1 .. Len(n.children) |-> _count_nodes(n.children[k])])
               /\ _count_nodes(n) = TreeSize(n)
               /\ _count_nodes(n) >= 1
        /\ analysis # <<>> => analysis[1].node_count = TreeSize(analysed[1].root)

Wit_C15 ==
    /\ analysis # <<>>
    /\ analysis[1].node_count = 5
    /\ Len(analysed[1].root.children) = 2

\* C16: _calculate_branching_factor is (number of parent-to-child edges) /
\* (number of nodes); the pair is (0, 1) at a leaf and (len(children) + child
\* edge totals, 1 + child node totals) at an internal node, its node total is
\* _count_nodes(root) and its edge total _count_nodes(root) - 1.
Thm_C16 ==
    analysed # <<>> =>
        /\ \A n \in NodesOf(analysed[1].root) :
               LET pair == count_children_and_nodes(n)
                   kids == [k \in 1 .. Len(n.children) |->
                                count_children_and_nodes(n.children[k])]
               IN  /\ n.children = <<>> => pair = <<0, 1>>
                   /\ n.children # <<>> =>
                          pair = <<Len(n.children)
                                       + SeqSum([k \in 1 .. Len(kids) |-> kids[k][1]]),
                                   1 + SeqSum([k \in 1 .. Len(kids) |-> kids[k][2]])>>
                   /\ pair[2] = _count_nodes(n)
                   /\ pair[1] = _count_nodes(n) - 1
                   /\ pair[1] = Cardinality(Paths(n) \ {<<>>})
        /\ analysis # <<>> =>
               analysis[1].branching_factor =
                   Frac(TreeSize(analysed[1].root) - 1, TreeSize(analysed[1].root))

Wit_C16 ==
    /\ analysis # <<>>
    /\ analysis[1].branching_factor = Frac(4, 5)
    /\ Len(analysed[1].root.children) = 2
    /\ Len(analysed[1].root.children[1].children) = 2

\* C18: the patterns of an analysis are the same three one-record lists
\* whatever the trace, so any two analyses agree on them.
Thm_C18 ==
    analysis # <<>> =>
        analysis[1].patterns =
            [sequential_chains |->
                 <<[type |-> "chain", length |-> 3, location |-> "root_step_0"]>>,
             recursive_loops |->
                 <<[type |-> "loop", depth |-> 2, location |-> "root_step_1"]>>,
             branching_patterns |->
                 <<[type |-> "branch", factor |-> 2, location |-> "root_step_2"]>>]

Wit_C18 ==
    /\ analysis # <<>>
    /\ Len(analysed[1].root.children) = 3
    /\ Len(analysis[1].patterns.branching_patterns) = 1
    /\ analysis[1].patterns.branching_patterns[1].factor = 2

----------------------------------------------------------------------------
(* Properties of the nodes the synthetic builder makes *)

\* C17: in a trace of the synthetic builder the root has id "input_0", child
\* number i (0..2) of a node with id P has id "P_step_i", and no two nodes
\* have the same id.
Thm_C17 ==
    \A D \in BuiltDepths : \A i \in BuiltWith(D) :
        LET root == traces[i].root
        IN  /\ root.id = "input_0"
            /\ \A n \in NodesOf(root) :
                   /\ Len(n.children) <= 3
                   /\ \A k \in 1 .. Len(n.children) :
                          n.children[k].id = n.id \o "_step_" \o ToString(k - 1)
            /\ Cardinality({n.id : n \in NodesOf(root)}) = TreeSize(root)

Wit_C17 ==
    \E i \in BuiltWith(2) :
        traces[i].root.children[3].children[1].id = "input_0_step_2_step_0"

\* C20: in a trace of the synthetic builder with max_depth D every node but
\* the root has type "transformation" and a metadata 'depth' equal to its
\* distance in edges from the root, which lies in 1..D.
Thm_C20 ==
    \A D \in BuiltDepths : \A i \in BuiltWith(D) :
        \A p \in Paths(traces[i].root) \ {<<>>} :
            LET n == NodeAt(traces[i].root, p)
            IN  /\ n.type = "transformation"
                /\ DOMAIN n.metadata = {"depth"}
                /\ n.metadata["depth"] = Len(p)
                /\ Len(p) \in 1 .. D

Wit_C20 ==
    \E i \in BuiltWith(3) :
        LET n == traces[i].root.children[1].children[2].children[3]
        IN  n.type = "transformation" /\ n.metadata["depth"] = 3

----------------------------------------------------------------------------
(* The builder's object graph *)

BuiltNodes == 1 .. Len(nodes)

\* the roots: of the traces of the history and of the build in progress
BuildRoots ==
    {traces[k].root : k \in 1 .. Len(traces)}
        \cup {building[k].root : k \in 1 .. Len(building)}

\* the node that is constructed and not yet appended
Unattached ==
    IF frames # <<>> /\ Innermost.pc = "append" THEN {Innermost.step_node} ELSE {}

\* the places of all children lists: <<l, k>> is position k of list l
Places == UNION {{<<l, k>> : k \in 1 .. Len(lists[l])} : l \in 1 .. Len(lists)}
Occupant(place) == lists[place[1]][place[2]]

\* the nodes the children lists of the nodes of S name
ChildrenOf(S) ==
    UNION {{lists[nodes[n].children][k] : k \in 1 .. Len(lists[nodes[n].children])}
              : n \in S}

RECURSIVE NoWalkFrom(_, _)
\* no walk of steps parent-to-child steps starts in S
NoWalkFrom(S, steps) ==
    IF S = {} THEN TRUE
    ELSE IF steps = 0 THEN FALSE
    ELSE NoWalkFrom(ChildrenOf(S), steps - 1)

RECURSIVE ReachableFrom(_, _)
\* the nodes of S and everything below them, at most fuel levels down
ReachableFrom(S, fuel) ==
    IF S = {} \/ fuel = 0 THEN S
    ELSE S \cup ReachableFrom(ChildrenOf(S), fuel - 1)

\* C12: at every step of a synthetic build and for every finished trace the
\* node graph is a forest of trees under the roots: following children never
\* leads back (no walk is as long as the number of nodes), no root is in any
\* children list, every other node occupies exactly one place of exactly one
\* list (the node just constructed and not yet appended occupies none), and no
\* two nodes name the same list object as their children.
Thm_C12 ==
    /\ NoWalkFrom(BuiltNodes, Len(nodes))
    /\ \A place \in Places : Occupant(place) \notin BuildRoots \cup Unattached
    /\ {Occupant(place) : place \in Places} = BuiltNodes \ (BuildRoots \cup Unattached)
    /\ Cardinality(Places) = Cardinality({Occupant(place) : place \in Places})
    /\ Cardinality({nodes[n].children : n \in BuiltNodes}) = Len(nodes)
    /\ \A n \in BuiltNodes : nodes[n].children \in 1 .. Len(lists)
    /\ ReachableFrom(BuildRoots, Len(nodes)) = BuiltNodes \ Unattached

\* a second build is two calls deep, with a node constructed and not yet
\* appended, while the history holds a finished trace of more than one node
Wit_C12 ==
    /\ Len(traces) = 1
    /\ lists[nodes[traces[1].root].children] # <<>>
    /\ building # <<>>
    /\ Len(frames) = 2
    /\ Innermost.pc = "append"
    /\ Len(lists[nodes[building[1].root].children]) = 2

RECURSIVE RightmostPath(_, _)
\* n, its last child, the last child of that one, and so on
RightmostPath(n, fuel) ==
    LET kids == lists[nodes[n].children]
    IN  IF kids = <<>> \/ fuel = 0
        THEN {n}
        ELSE {n} \cup RightmostPath(kids[Len(kids)], fuel - 1)

\* the node whose children field names list l
Owner(l) == CHOOSE n \in BuiltNodes : nodes[n].children = l

\* list l is one element longer after the step
Grows(l) == Len(lists'[l]) = Len(lists[l]) + 1

\* the subtree under node n is all the build will ever put there
Finished(n) ==
    Unfold(n, Len(nodes)) =
        _trace_recursive_processing([nodes[n] EXCEPT !.children = <<>>],
                                    nodes[n].metadata["depth"],
                                    building[1].config["max_depth"])

\* what one step may do to the objects of a build
PreOrderStep ==
    \* objects are only added, one node at a time, each with an empty list
    /\ Len(nodes') \in {Len(nodes), Len(nodes) + 1}
    /\ SubSeq(nodes', 1, Len(nodes)) = nodes
    /\ Len(lists') >= Len(lists)
    /\ \A l \in Len(lists) + 1 .. Len(lists') : lists'[l] = <<>>
    \* a list changes only by one append at its end: nothing is reordered
    /\ \A l \in 1 .. Len(lists) :
          \/ lists'[l] = lists[l]
          \/ Grows(l) /\ SubSeq(lists'[l], 1, Len(lists[l])) = lists[l]
    \* the node constructed by the step that starts a build is its root; every
    \* other node is constructed for a parent that is in the tree already
    /\ Len(nodes') > Len(nodes) =>
          IF building = <<>>
          THEN /\ building' # <<>>
               /\ building'[1].root = Len(nodes')
               /\ nodes'[Len(nodes')].id = "input_0"
          ELSE /\ building' = building
               /\ building[1].root \in BuiltNodes
               /\ Innermost.parent_node
                      \in ReachableFrom({building[1].root}, Len(nodes))
    \* an append puts child i of the list's owner at position i of the list,
    \* the child has no children yet, the owner lies on the rightmost path of
    \* the tree, and the subtree of child i - 1 is finished
    /\ \A l \in 1 .. Len(lists) :
          Grows(l) =>
              LET parent == Owner(l)
                  i == Len(lists[l])
                  child == lists'[l][i + 1]
              IN  /\ building # <<>>
                  /\ i \in 0 .. StepCount - 1
                  /\ nodes[child].id = nodes[parent].id \o "_step_" \o ToString(i)
                  /\ lists[nodes[child].children] = <<>>
                  /\ parent \in RightmostPath(building[1].root, Len(nodes))
                  /\ i > 0 => Finished(lists[l][i])

\* C19: during a synthetic build the root is constructed first and the nodes
\* are added depth-first in pre-order: every step keeps PreOrderStep, that is,
\* a node is appended (childless) before any child of it is constructed,
\* children are appended at positions 0, 1, 2 in that order and never moved,
\* and child i + 1 is appended only when the subtree of child i is finished
\* (appends only happen on the rightmost path, so it is never touched again).
Thm_C19 == [][PreOrderStep]_vars

\* in a build with max_depth 2 the second child of the root has just been
\* appended, after the first child got its three children
Wit_C19 ==
    /\ building # <<>>
    /\ building[1].config["max_depth"] = 2
    /\ Len(frames) = 1
    /\ Innermost.pc = "branch"
    /\ Len(lists[nodes[building[1].root].children]) = 2
    /\ Len(lists[nodes[lists[nodes[building[1].root].children][1]].children]) = StepCount
    /\ lists[nodes[Innermost.step_node].children] = <<>>

\* the TraceNode objects of a trace of the history
ObjectsOf(trace) == ReachableFrom({trace.root}, Len(nodes))

\* what one step leaves alone
ReturnedTraceKept ==
    \* every trace of the history stays where it is, with its root, stored
    \* depth and metadata, and each of its nodes keeps its fields and the
    \* content and order of its children list
    /\ \A k \in 1 .. Len(traces) :
          /\ Len(traces') >= k
          /\ traces'[k] = traces[k]
          /\ \A n \in ObjectsOf(traces[k]) :
                /\ nodes'[n] = nodes[n]
                /\ lists'[nodes[n].children] = lists[nodes[n].children]
    \* a step that leaves an analysis result changes neither the history nor
    \* any node or list
    /\ (analysed' # analysed \/ analysis' # analysis) =>
          /\ traces' = traces
          /\ nodes' = nodes
          /\ lists' = lists

\* C11: once extract_trace has returned a trace no later step changes it:
\* analyze_trace leaves the tree, the stored depth, the metadata and the
\* history as they are, and no statement of a later extract_trace call changes
\* a node or a children list of a trace that is in the history.
Thm_C11 == [][ReturnedTraceKept]_vars

\* two traces of more than one node are in the history, the second one built
\* after the first was returned, and the first has been analysed
Wit_C11 ==
    /\ Len(traces) = 2
    /\ lists[nodes[traces[1].root].children] # <<>>
    /\ lists[nodes[traces[2].root].children] # <<>>
    /\ analysed = <<traces[1]>>
    /\ analysis # <<>>
    /\ analysis[1].node_count = Cardinality(ObjectsOf(traces[1]))

----------------------------------------------------------------------------
(* Properties of analyze_trace and extract_trace *)

\* C21: analyze_trace reports as depth the depth field stored in the trace,
\* also when the longest path of the tree has another length, while breadth
\* and node_count are what the tree gives.
Thm_C21 ==
    analysis # <<>> =>
        /\ analysis[1].depth = analysed[1].depth
        /\ analysis[1].breadth = WidestGroup(analysed[1].root)
        /\ analysis[1].node_count = TreeSize(analysed[1].root)

\* a tree of height 1 stored with depth 3 has been analysed
Wit_C21 ==
    /\ analysis # <<>>
    /\ TreeHeight(analysed[1].root) = 1
    /\ TreeSize(analysed[1].root) = 4
    /\ analysed[1].depth = 3
    /\ analysis[1].depth = 3
    /\ analysis[1].breadth = 3
    /\ analysis[1].node_count = 4

\* the keys the caller's config argument names
NamedKeys(config) == IF config.is_none THEN {} ELSE DOMAIN config.dict

\* the depth bound the claim gives for a config argument
ExpectedBound(config) ==
    IF "max_depth" \in NamedKeys(config)
    THEN config.dict["max_depth"]
    ELSE default_max_depth

\* C22: the effective configuration of an extract_trace call is the caller's
\* config laid over the defaults: it has the keys of both, a key the caller
\* names has the caller's value, any other key its default; so max_depth is
\* the caller's value if there is one and 10 for None, for the empty dict and
\* for a dict without max_depth, and the builder builds the tree of that bound.
Thm_C22 ==
    resolving # <<>> =>
        LET given == calls[1].config
            effective == resolving[1].config
            bound == ExpectedBound(given)
        IN  /\ DOMAIN effective = DOMAIN default_config \cup NamedKeys(given)
            /\ \A k \in DOMAIN effective :
                   effective[k] = IF k \in NamedKeys(given)
                                  THEN given.dict[k]
                                  ELSE default_config[k]
            /\ effective["max_depth"] = bound
            /\ (traces # <<>> /\ IsGenericCall(calls[1])) =>
                   /\ traces[1].depth = Max(bound, 0)
                   /\ _count_nodes(traces[1].root) = TernarySize(Max(bound, 0))

\* a call with a non-empty config that does not name max_depth has built the
\* tree of depth 10
Wit_C22 ==
    /\ traces # <<>>
    /\ IsGenericCall(calls[1])
    /\ NamedKeys(calls[1].config) = {"track_intermediate", "verbose"}
    /\ resolving[1].config["track_intermediate"] = FALSE
    /\ resolving[1].config["max_depth"] = 10
    /\ traces[1].depth = 10

\* the single-node trace the process_with_trace branch returns
IsPlaceholder(trace) ==
    /\ trace.root.id = "root"
    /\ trace.root.type = "input"
    /\ trace.root.content = "System-provided trace root"
    /\ trace.root.metadata = EmptyDict
    /\ trace.root.children = <<>>
    /\ trace.depth = 0
    /\ trace.metadata = EmptyDict

\* what one extract_trace call does, by the capability of its system
DispatchStep ==
    Len(calls') = Len(calls) + 1 =>
        LET call == calls'[Len(calls')]
        IN  /\ Len(traces') = Len(traces) + 1
            /\ returned' = <<traces'[Len(traces')]>>
            /\ IF call.system.has_process_with_trace
               THEN /\ pwt_calls' = pwt_calls + 1
                    /\ clock' = clock
                    /\ IsPlaceholder(returned'[1])
               ELSE /\ pwt_calls' = pwt_calls
                    /\ clock' = clock + 1
                    /\ returned'[1].root.id = "input_0"
                    /\ returned'[1].root.metadata = Dict1("timestamp", clock)
                    /\ TreeSize(returned'[1].root) =
                           TernarySize(Max(RequestedDepth(call), 0))

\* C23: an extract_trace call on a system with process_with_trace calls that
\* method exactly once, does not run the synthetic builder (no timestamp is
\* read) and returns the placeholder trace (root "root", no children, depth
\* 0) whatever the method returned; on any other system the method is not
\* called and the synthetic builder makes the trace.  Either way the history
\* is one trace longer.
Thm_C23 == [][DispatchStep]_vars

\* one call of each kind has been made: the first on a system with
\* process_with_trace, the second through the builder
Wit_C23 ==
    /\ Len(traces) = 2
    /\ calls[1].system.has_process_with_trace
    /\ IsPlaceholder(traces[1])
    /\ ~calls[2].system.has_process_with_trace
    /\ TreeSize(traces[2].root) = 13
    /\ pwt_calls = 1
    /\ clock = 1

\* C24: on every finite tree the branching factor is (N - 1) / N for the N
\* nodes of the tree, strictly less than 1, so the guard of
\* _calculate_recursion_depth_index holds and the index is 0: no analysis
\* takes the logarithm branch, whatever depth the trace stores.
Thm_C24 ==
    analysis # <<>> =>
        LET N == TreeSize(analysed[1].root)
            bf == _calculate_branching_factor(analysed[1])
        IN  /\ FracEq(bf, Frac(N - 1, N))
            /\ FracLtInt(bf, 1)
            /\ analysis[1].branching_factor = bf
            /\ RdiGuard(_count_nodes(analysed[1].root), bf)
            /\ analysis[1].recursion_depth_index.branch = "guard"
            /\ RdiIsZero(analysis[1].recursion_depth_index)

\* the widest tree of the largest size, stored with the largest depth, has
\* been analysed: its factor is as close to 1 as the bound allows
Wit_C24 ==
    /\ analysis # <<>>
    /\ Len(analysed[1].root.children) = MaxNodes - 1
    /\ analysed[1].depth = MaxNodes - 1
    /\ analysis[1].branching_factor = Frac(MaxNodes - 1, MaxNodes)
    /\ analysis[1].recursion_depth_index.branch = "guard"

----------------------------------------------------------------------------
(* The guards of the builder *)

RECURSIVE WithoutInnerGuard(_, _, _)
\* _trace_recursive_processing with the test of line 181 taken out: the call
\* on step_node is made for every step
WithoutInnerGuard(parent_node, current_depth, max_depth) ==
    IF AtMaxDepth(current_depth, max_depth)
    THEN parent_node
    ELSE [parent_node EXCEPT !.children =
             @ \o List([k \in 1 .. StepCount |->
                           WithoutInnerGuard(
                               StepNode(parent_node, Range(StepCount)[k], current_depth),
                               current_depth + 1, max_depth)])]

\* every call below the top-level one runs with current_depth < max_depth
NestedBelowBound ==
    \A k \in 2 .. Len(frames) : frames[k].current_depth < frames[k].max_depth

\* a call that returns at line 164 is the top-level call of a build whose
\* max_depth is at most 0
EarlyReturnAtTop ==
    (/\ frames # <<>>
     /\ Innermost.pc = "guard"
     /\ frames' = Callers)
        => /\ Len(frames) = 1
           /\ Innermost.current_depth = 0
           /\ Innermost.max_depth <= 0

\* every finished tree is the tree the builder without the inner guard gives
SameTreeWithoutInnerGuard ==
    \A k \in 1 .. Len(traces) :
        Unfold(traces[k].root, Len(nodes)) =
            WithoutInnerGuard([nodes[traces[k].root] EXCEPT !.children = <<>>],
                              0, RequestedDepth(calls[k]))

\* C25: in the synthetic builder every call of _trace_recursive_processing
\* below the top-level one is made with current_depth < max_depth, so the
\* return of line 164 is only taken by the top-level call of a build with
\* max_depth <= 0, and the builder without the test of line 181 gives exactly
\* the same tree.
Thm_C25 ==
    /\ [](NestedBelowBound /\ SameTreeWithoutInnerGuard)
    /\ [][EarlyReturnAtTop]_vars

\* a build with max_depth 2 is finished and a build with max_depth 0, whose
\* top-level call is at its guard, is under way
Wit_C25 ==
    /\ Len(traces) = 1
    /\ RequestedDepth(calls[1]) = 2
    /\ Len(lists[nodes[traces[1].root].children]) = StepCount
    /\ Len(frames) = 1
    /\ Innermost.pc = "guard"
    /\ Innermost.max_depth = 0

----------------------------------------------------------------------------
(* Cost of a build *)

\* the places of the children lists of the nodes of a trace
PlacesOf(trace) ==
    LET owned == {nodes[n].children : n \in ObjectsOf(trace)}
    IN  UNION {{<<l, k>> : k \in 1 .. Len(lists[l])} : l \in owned}

\* the active calls are never more than max(max_depth, 0) + 1
NestingBounded ==
    building # <<>> =>
        Len(frames) <= Max(building[1].config["max_depth"], 0) + 1

\* the appends made for a finished trace are one fewer than its nodes
AppendsOfFinished ==
    \A k \in 1 .. Len(traces) :
        Cardinality(PlacesOf(traces[k])) =
            _count_nodes(Unfold(traces[k].root, Len(nodes))) - 1

\* the lists change only when line 178 is executed, and then by exactly one
\* place; no place is ever given up
OneAppendPerStep ==
    /\ Places \subseteq Places'
    /\ Places' # Places =>
          /\ frames # <<>>
          /\ Innermost.pc = "append"
          /\ Cardinality(Places') = Cardinality(Places) + 1

\* C26: for every max_depth, negative, zero or positive, the top-level call
\* of _trace_recursive_processing returns (no call stays active), the number
\* of child appends made for the trace (one place per execution of line 178)
\* is node_count - 1, and the nesting of _trace_recursive_processing never
\* exceeds max(max_depth, 0) + 1.
Thm_C26 ==
    /\ [](NestingBounded /\ AppendsOfFinished)
    /\ [][OneAppendPerStep]_vars
    /\ (frames # <<>>) ~> (frames = <<>>)

\* builds with max_depth -1 and 2 are finished: the first made no append, the
\* second made 12 for its 13 nodes
Wit_C26 ==
    /\ Len(traces) = 2
    /\ building = <<>>
    /\ RequestedDepth(calls[1]) = -1
    /\ Cardinality(PlacesOf(traces[1])) = 0
    /\ RequestedDepth(calls[2]) = 2
    /\ Cardinality(PlacesOf(traces[2])) = 12
    /\ Cardinality(ObjectsOf(traces[2])) = 13

----------------------------------------------------------------------------
(* The scalar calculators *)

\* the arguments of a call are in range: every coefficient in 0..1 and the
\* recursive depth, where there is one, not negative
ArgsInRange(call) ==
    \A k \in DOMAIN call.args :
        IF k = "recursive_depth"
        THEN call.args[k] >= 0
        ELSE 0 <= call.args[k] /\ call.args[k] <= 1

\* the history of the calculator a call is made on, before and after a step
HistoryOf(call) ==
    CASE call.op = "calculate_boundary_collapse" -> bridge_history
      [] call.op = "calculate_residue" -> constraint_history
      [] call.op = "calculate_coherence" -> coherence_history
HistoryAfter(call) ==
    CASE call.op = "calculate_boundary_collapse" -> bridge_history'
      [] call.op = "calculate_residue" -> constraint_history'
      [] call.op = "calculate_coherence" -> coherence_history'

\* the name under which a calculator records its result
ResultKey(call) ==
    CASE call.op = "calculate_boundary_collapse" -> "boundary_collapse"
      [] call.op = "calculate_residue" -> "residue"
      [] call.op = "calculate_coherence" -> "coherence"

\* record holds the inputs of the call and its result
HoldsCall(record, call) ==
    /\ DOMAIN record = DOMAIN call.args \cup {ResultKey(call)}
    /\ \A k \in DOMAIN call.args : record[k] = call.args[k]
    /\ record[ResultKey(call)] = call.result

\* C27 as stated: a calculator call with an argument out of range raises
\* ValueError and leaves the history as it is, and a call with all arguments
\* in range appends exactly one record holding the inputs and the result.
CE_C27 ==
    [][Len(calc_log') = Len(calc_log) + 1 =>
          LET call == calc_log'[Len(calc_log')]
              before == HistoryOf(call)
              after == HistoryAfter(call)
          IN  IF ~ArgsInRange(call)
              THEN /\ call.raised = "ValueError"
                   /\ after = before
              ELSE /\ call.raised = "none"
                   /\ Len(after) = Len(before) + 1
                   /\ SubSeq(after, 1, Len(before)) = before
                   /\ HoldsCall(after[Len(after)], call)]_vars
====
